---- MODULE Spec2Model ----
(***************************************************************************)
(* State-machine model of the browse screen of disney-streaming-clone:    *)
(* RootWidget (root_widget.rs), ContentSet (content_set.rs) and Thumbnail *)
(* (thumbnail.rs), driven by the events the widget framework hands them:  *)
(* lifecycle WidgetAdded / BuildFocusChain, KeyDown, Command,             *)
(* PromiseResult and AnimFrame, plus the background closures passed to    *)
(* compute_in_background.                                                  *)
(***************************************************************************)
EXTENDS Integers, Sequences, FiniteSets, TLC

VARIABLES
    root,       \* the RootWidget: children_promise, children, selected_item
    tasks,      \* closures given to compute_in_background, indexed by token id
    commands,   \* commands submitted with ctx.submit_command, not yet dispatched
    focus,      \* "none" | "requested" | "focused": the REQUEST_FOCUS handshake
    running,    \* the process has not terminated
    lastEvent,  \* the event the UI thread handled last
    keyPressed, \* some KeyDown event has been handled
    ticksSinceRight \* AnimFrame events handled since ArrowRight was pressed with
                    \* Thumbnail (0,0) selected and fully grown; -1 otherwise

vars == <<root, tasks, commands, focus, running, lastEvent, keyPressed, ticksSinceRight>>

-----------------------------------------------------------------------------
(* Bounds of the model *)

\* rows of the largest collection a fetch returns
MaxRows == 2
\* image URLs of the largest content set a fetch returns
MaxCols == 2
\* image URLs of all the content sets the fetches of one run return
MaxItems == 2
\* the cursor is not driven past this coordinate (usize::MAX is out of reach)
MaxCursor == 1
\* fetches scheduled again on a widget that already has one in flight (SpecRefetch)
MaxRefetch == 1
\* PromiseResult events handed to the tree a second time (SpecRedeliver)
MaxRedeliver == 1

-----------------------------------------------------------------------------
(* Program constants *)

\* thumbnail.rs: the literal 5 of `self.selected_progress < 5`
MAX_STEPS == 5

\* PromiseToken::empty(): the token no result carries
EmptyToken == 0

CHANGE_SELECTED_ITEM == "change_selected_item"
REQUEST_FOCUS == "request_focus"

Keys == {"ArrowDown", "ArrowLeft", "ArrowRight", "ArrowUp", "Other"}

-----------------------------------------------------------------------------
(* Results of the two fetches.  A fetch returns any list up to the bound;   *)
(* the k-th entry of a list of n is numbered n + 1 - k, so that an entry's  *)
(* content never coincides with its position.                               *)

ContentSetMetadata(k) == [title |-> <<"title", k>>, ref_id |-> <<"refId", k>>]

Collection(n) == [k \in 1..n |-> ContentSetMetadata(n + 1 - k)]

Collections == {Collection(n) : n \in 0..MaxRows}

TileUrls(m) == [k \in 1..m |-> <<"url", m + 1 - k>>]

ContentSets == {TileUrls(m) : m \in 0..MaxCols}

-----------------------------------------------------------------------------
(* Constructors *)

\* faulty variant: a Thumbnail built at the origin starts out selected
Thumbnail_new_origin_selected(row, column, thumbnail_url) ==
    [row |-> row,
     column |-> column,
     inner |-> thumbnail_url,
     selected |-> (row = 0 /\ column = 0),
     selected_progress |-> 0,
     anim_requested |-> FALSE]

Thumbnail_new(row, column, thumbnail_url) ==
    [row |-> row,
     column |-> column,
     inner |-> thumbnail_url,
     selected |-> FALSE,
     selected_progress |-> 0,
     anim_requested |-> FALSE]

ContentSet_new(row, data) ==
    [row |-> row,
     data |-> data,
     children_promise |-> EmptyToken,
     children |-> [label |-> data.title, placeholder |-> TRUE, titles |-> <<>>],
     added |-> FALSE]

RootWidget_new ==
    [children_promise |-> EmptyToken,
     children |-> [placeholder |-> TRUE, rows |-> <<>>],
     selected_item |-> <<0, 0>>,
     added |-> FALSE]

NoEvent == [type |-> "none", key |-> "", token |-> EmptyToken, from |-> <<0, 0>>]

Init ==
    /\ root = RootWidget_new
    /\ tasks = <<>>
    /\ commands = <<>>
    /\ focus = "none"
    /\ running = TRUE
    /\ lastEvent = NoEvent
    /\ keyPressed = FALSE
    /\ ticksSinceRight = -1

-----------------------------------------------------------------------------
(* Helpers *)

\* faulty variant: a plain subtraction, which leaves 0 downwards
saturating_sub_unchecked(x) == x - 1

\* usize::saturating_sub(1)
saturating_sub(x) == IF x = 0 THEN 0 ELSE x - 1

\* usize::saturating_add(1); the guard of KeyDown keeps x below usize::MAX
saturating_add(x) == x + 1

\* PromiseResult::try_get(token): the result is handed out iff it carries the
\* token asked for.  No result carries the empty token.
try_get(resultToken, token) == resultToken = token

Rows == root.children.rows

\* The event loop dispatches the commands an event handler submitted right
\* after that handler returns: it takes the next event from the platform
\* (lifecycle pass, key, promise result, frame) only with the queue drained.
QueueDrained == commands = <<>>

\* every Thumbnail of the tree
Thumbnails == UNION {{Rows[r].children.titles[c] :
                        c \in DOMAIN Rows[r].children.titles} : r \in DOMAIN Rows}

\* the widget tree w has a Thumbnail at position a
HasItem(w, a) ==
    /\ a[1] + 1 \in DOMAIN w.children.rows
    /\ a[2] + 1 \in DOMAIN w.children.rows[a[1] + 1].children.titles

ItemAt(w, a) == w.children.rows[a[1] + 1].children.titles[a[2] + 1]

\* the start of the walk from (0,0) to (0,1): the cursor is at (0,0), Thumbnail
\* (0,0) is selected and fully grown, Thumbnail (0,1) is unselected and small
SelectedAtOrigin ==
    /\ root.selected_item = <<0, 0>>
    /\ HasItem(root, <<0, 0>>)
    /\ HasItem(root, <<0, 1>>)
    /\ ItemAt(root, <<0, 0>>).selected
    /\ ItemAt(root, <<0, 0>>).selected_progress = MAX_STEPS
    /\ ~ItemAt(root, <<0, 1>>).selected
    /\ ItemAt(root, <<0, 1>>).selected_progress = 0

-----------------------------------------------------------------------------
(* Thumbnail::on_event *)

\* faulty variant: a Thumbnail that is not addressed keeps its selected flag
Thumbnail_on_command_keeps_selected(self, item) ==
    IF item = <<self.row, self.column>>
    THEN [self EXCEPT !.selected = TRUE, !.anim_requested = TRUE]
    ELSE self

\* faulty variant: a frame is requested only when the progress has a way to go
Thumbnail_on_command_guards_frame(self, item) ==
    IF item = <<self.row, self.column>>
    THEN [self EXCEPT !.selected = TRUE,
                      !.anim_requested = @ \/ self.selected_progress < MAX_STEPS]
    ELSE IF self.selected
         THEN [self EXCEPT !.selected = FALSE,
                           !.anim_requested = @ \/ self.selected_progress > 0]
         ELSE self

\* Event::Command carrying CHANGE_SELECTED_ITEM
Thumbnail_on_command(self, item) ==
    IF item = <<self.row, self.column>>
    THEN [self EXCEPT !.selected = TRUE, !.anim_requested = TRUE]
    ELSE IF self.selected
         THEN [self EXCEPT !.selected = FALSE, !.anim_requested = TRUE]
         ELSE self

\* faulty variant: the selected branch grows without the test against MAX_STEPS
Thumbnail_on_anim_frame_unbounded(self) ==
    IF self.selected
    THEN [self EXCEPT !.selected_progress = @ + 1, !.anim_requested = TRUE]
    ELSE IF self.selected_progress > 0
         THEN [self EXCEPT !.selected_progress = @ - 1, !.anim_requested = TRUE]
         ELSE self

\* faulty variant: the frame handler grows the Thumbnail whether or not it is selected
Thumbnail_on_anim_frame_ignores_selected(self) ==
    IF self.selected_progress < MAX_STEPS
    THEN [self EXCEPT !.selected_progress = @ + 1, !.anim_requested = TRUE]
    ELSE self

\* faulty variant: a shrinking Thumbnail asks for no further frame
Thumbnail_on_anim_frame_shrinks_once(self) ==
    IF self.selected
    THEN IF self.selected_progress < MAX_STEPS
         THEN [self EXCEPT !.selected_progress = @ + 1, !.anim_requested = TRUE]
         ELSE self
    ELSE IF self.selected_progress > 0
         THEN [self EXCEPT !.selected_progress = @ - 1]
         ELSE self

\* faulty variant: every frame asks for the next one
Thumbnail_on_anim_frame_always_requests(self) ==
    IF self.selected
    THEN IF self.selected_progress < MAX_STEPS
         THEN [self EXCEPT !.selected_progress = @ + 1, !.anim_requested = TRUE]
         ELSE [self EXCEPT !.anim_requested = TRUE]
    ELSE IF self.selected_progress > 0
         THEN [self EXCEPT !.selected_progress = @ - 1, !.anim_requested = TRUE]
         ELSE [self EXCEPT !.anim_requested = TRUE]

\* Event::AnimFrame
Thumbnail_on_anim_frame(self) ==
    IF self.selected
    THEN IF self.selected_progress < MAX_STEPS
         THEN [self EXCEPT !.selected_progress = @ + 1, !.anim_requested = TRUE]
         ELSE self
    ELSE IF self.selected_progress > 0
         THEN [self EXCEPT !.selected_progress = @ - 1, !.anim_requested = TRUE]
         ELSE self

-----------------------------------------------------------------------------
(* ContentSet::on_event *)

\* faulty variant: columns counted from 1
ContentSet_on_promise_result_off_by_one(self, token, payload) ==
    IF try_get(token, self.children_promise)
    THEN [self EXCEPT !.children =
            [label |-> self.data.title,
             placeholder |-> FALSE,
             titles |-> [c \in 1..Len(payload) |->
                           Thumbnail_new(self.row, c, payload[c])]]]
    ELSE self

\* faulty variant: a ContentSet whose own fetch has not resolved takes any result
ContentSet_on_promise_result_any_token(self, token, payload) ==
    IF self.children.placeholder
    THEN [self EXCEPT !.children =
            [label |-> self.data.title,
             placeholder |-> FALSE,
             titles |-> [c \in 1..Len(payload) |->
                           Thumbnail_new(self.row, c - 1, payload[c])]]]
    ELSE self

\* faulty variant: an empty list is taken for a failed fetch and dropped
ContentSet_on_promise_result_rejects_empty(self, token, payload) ==
    IF try_get(token, self.children_promise) /\ payload # <<>>
    THEN [self EXCEPT !.children =
            [label |-> self.data.title,
             placeholder |-> FALSE,
             titles |-> [c \in 1..Len(payload) |->
                           Thumbnail_new(self.row, c - 1, payload[c])]]]
    ELSE self

\* faulty variant: the Thumbnail built at the cursor's position starts selected
ContentSet_on_promise_result_selects_cursor(self, token, payload) ==
    IF try_get(token, self.children_promise)
    THEN [self EXCEPT !.children =
            [label |-> self.data.title,
             placeholder |-> FALSE,
             titles |-> [c \in 1..Len(payload) |->
                [Thumbnail_new(self.row, c - 1, payload[c]) EXCEPT
                    !.selected = (<<self.row, c - 1>> = root.selected_item)]]]]
    ELSE self

\* Event::PromiseResult
ContentSet_on_promise_result(self, token, payload) ==
    IF try_get(token, self.children_promise)
    THEN [self EXCEPT !.children =
            [label |-> self.data.title,
             placeholder |-> FALSE,
             titles |-> [c \in 1..Len(payload) |->
                           Thumbnail_new(self.row, c - 1, payload[c])]]]
    ELSE self

\* any other event is passed on to the children; of these the Thumbnails
\* handle Command and AnimFrame
ContentSet_on_command(self, item) ==
    [self EXCEPT !.children.titles =
        [c \in DOMAIN @ |-> Thumbnail_on_command(@[c], item)]]

\* the framework hands AnimFrame to the widgets that requested a frame and
\* clears the request before the handler runs
ContentSet_on_anim_frame(self) ==
    [self EXCEPT !.children.titles =
        [c \in DOMAIN @ |->
            IF @[c].anim_requested
            THEN Thumbnail_on_anim_frame([@[c] EXCEPT !.anim_requested = FALSE])
            ELSE @[c]]]

-----------------------------------------------------------------------------
(* RootWidget::on_event *)

\* faulty variant: handling a result puts the cursor back to the origin
RootWidget_on_promise_result_resets_cursor(self, token, payload) ==
    IF try_get(token, self.children_promise)
    THEN [self EXCEPT !.selected_item = <<0, 0>>,
                      !.children =
            [placeholder |-> FALSE,
             rows |-> [k \in 1..Len(payload) |-> ContentSet_new(k - 1, payload[k])]]]
    ELSE [self EXCEPT !.selected_item = <<0, 0>>,
                      !.children.rows =
            [k \in DOMAIN @ |-> ContentSet_on_promise_result(@[k], token, payload)]]

\* Event::PromiseResult
RootWidget_on_promise_result(self, token, payload) ==
    IF try_get(token, self.children_promise)
    THEN [self EXCEPT !.children =
            [placeholder |-> FALSE,
             rows |-> [k \in 1..Len(payload) |-> ContentSet_new(k - 1, payload[k])]]]
    ELSE [self EXCEPT !.children.rows =
            [k \in DOMAIN @ |-> ContentSet_on_promise_result(@[k], token, payload)]]

\* faulty variant: ArrowLeft written against the row field
MoveCursor_left_moves_row(item, key) ==
    CASE key = "ArrowDown"  -> <<saturating_add(item[1]), item[2]>>
      [] key = "ArrowLeft"  -> <<saturating_sub(item[1]), item[2]>>
      [] key = "ArrowRight" -> <<item[1], saturating_add(item[2])>>
      [] key = "ArrowUp"    -> <<saturating_sub(item[1]), item[2]>>
      [] OTHER              -> item

\* faulty variant: ArrowDown and ArrowRight stop at the last row and at the
\* last Thumbnail of the row
MoveCursor_clamped(item, key) ==
    CASE key = "ArrowDown"  ->
           IF item[1] + 1 < Len(Rows) THEN <<item[1] + 1, item[2]>> ELSE item
      [] key = "ArrowLeft"  -> <<item[1], saturating_sub(item[2])>>
      [] key = "ArrowRight" ->
           IF HasItem(root, <<item[1], item[2] + 1>>)
           THEN <<item[1], item[2] + 1>> ELSE item
      [] key = "ArrowUp"    -> <<saturating_sub(item[1]), item[2]>>
      [] OTHER              -> item

\* Event::KeyDown: the match on key_event.key
MoveCursor(item, key) ==
    CASE key = "ArrowDown"  -> <<saturating_add(item[1]), item[2]>>
      [] key = "ArrowLeft"  -> <<item[1], saturating_sub(item[2])>>
      [] key = "ArrowRight" -> <<item[1], saturating_add(item[2])>>
      [] key = "ArrowUp"    -> <<saturating_sub(item[1]), item[2]>>
      [] OTHER              -> item

-----------------------------------------------------------------------------
(* Lifecycle *)

\* RootWidget::lifecycle, LifeCycle::WidgetAdded: token is the one
\* compute_in_background has just minted
RootWidget_on_widget_added(self, token) == [self EXCEPT !.children_promise = token]

\* faulty variant: a ContentSet that already holds a token keeps it
ContentSet_on_widget_added_keeps_token(self, token) ==
    IF self.children_promise = EmptyToken
    THEN [self EXCEPT !.children_promise = token]
    ELSE self

\* ContentSet::lifecycle, LifeCycle::WidgetAdded
ContentSet_on_widget_added(self, token) == [self EXCEPT !.children_promise = token]

\* ctx.compute_in_background: a new closure starts on a worker thread
NewTask(kind, owner, refetch) ==
    [kind |-> kind, owner |-> owner, status |-> "running",
     payload |-> <<>>, delivered |-> 0, refetch |-> refetch]

\* LifeCycle::WidgetAdded at the RootWidget: the first and only time the
\* framework sends it
RootWidgetAdded ==
    /\ running
    /\ QueueDrained
    /\ ~root.added
    /\ root' = [RootWidget_on_widget_added(root, Len(tasks) + 1) EXCEPT !.added = TRUE]
    /\ tasks' = Append(tasks, NewTask("collection", <<"root">>, FALSE))
    /\ lastEvent' = [NoEvent EXCEPT !.type = "WidgetAdded"]
    /\ UNCHANGED <<commands, focus, running, keyPressed, ticksSinceRight>>

\* LifeCycle::WidgetAdded at the ContentSet of row r (r counts from 1 here);
\* the lifecycle pass visits the children of the Flex in order
ContentSetWidgetAdded(r) ==
    /\ running
    /\ QueueDrained
    /\ r \in DOMAIN Rows
    /\ ~Rows[r].added
    /\ \A q \in 1..r - 1 : Rows[q].added
    /\ root' = [root EXCEPT !.children.rows[r] =
                   [ContentSet_on_widget_added(@, Len(tasks) + 1) EXCEPT !.added = TRUE]]
    /\ tasks' = Append(tasks, NewTask("content_set", <<"row", r - 1>>, FALSE))
    /\ lastEvent' = [NoEvent EXCEPT !.type = "WidgetAdded"]
    /\ UNCHANGED <<commands, focus, running, keyPressed, ticksSinceRight>>

\* LifeCycle::BuildFocusChain at the RootWidget
BuildFocusChain ==
    /\ running
    /\ QueueDrained
    /\ root.added
    /\ focus = "none"
    /\ focus' = "requested"
    /\ commands' = Append(commands, [selector |-> REQUEST_FOCUS, payload |-> <<0, 0>>])
    /\ lastEvent' = [NoEvent EXCEPT !.type = "BuildFocusChain"]
    /\ UNCHANGED <<root, tasks, running, keyPressed, ticksSinceRight>>

-----------------------------------------------------------------------------
(* The background closures *)

\* URLs returned so far by the content-set fetches
RECURSIVE Returned(_)
Returned(t) ==
    IF t = 0 THEN 0
    ELSE Returned(t - 1)
           + (IF tasks[t].kind = "content_set" THEN Len(tasks[t].payload) ELSE 0)

Payloads(kind) ==
    IF kind = "collection" THEN Collections
    ELSE {p \in ContentSets : Returned(Len(tasks)) + Len(p) <= MaxItems}

\* load_collection / load_content_set returned Ok(list)
FetchReturn(t) ==
    /\ running
    /\ t \in DOMAIN tasks
    /\ tasks[t].status = "running"
    /\ \E payload \in Payloads(tasks[t].kind) :
         tasks' = [tasks EXCEPT ![t].status = "resolved", ![t].payload = payload]
    /\ UNCHANGED <<root, commands, focus, running, lastEvent, keyPressed, ticksSinceRight>>

\* load_collection / load_content_set returned Err or hit an unwrap() on a
\* missing field: the closure panics.  Under the unwinding panic strategy
\* only the worker thread ends; under panic=abort the process ends.
FetchPanic(t) ==
    /\ running
    /\ t \in DOMAIN tasks
    /\ tasks[t].status = "running"
    /\ tasks' = [tasks EXCEPT ![t].status = "panicked"]
    /\ running' \in BOOLEAN
    /\ UNCHANGED <<root, commands, focus, lastEvent, keyPressed, ticksSinceRight>>

-----------------------------------------------------------------------------
(* Events handled on the UI thread *)

\* Event::PromiseResult travels from the RootWidget down the tree
HandlePromiseResult(t) ==
    /\ root' = RootWidget_on_promise_result(root, t, tasks[t].payload)
    /\ tasks' = [tasks EXCEPT ![t].delivered = @ + 1]
    /\ lastEvent' = [NoEvent EXCEPT !.type = "PromiseResult", !.token = t]
    /\ UNCHANGED <<commands, focus, running, keyPressed, ticksSinceRight>>

DeliverPromiseResult(t) ==
    /\ running
    /\ QueueDrained
    /\ t \in DOMAIN tasks
    /\ tasks[t].status = "resolved"
    /\ tasks[t].delivered = 0
    /\ HandlePromiseResult(t)

\* faulty variant: a key that leaves the cursor where it was submits no command
KeyDown_broadcasts_on_change(key) ==
    /\ running
    /\ focus = "focused"
    /\ QueueDrained
    /\ key = "ArrowDown" => root.selected_item[1] < MaxCursor
    /\ key = "ArrowRight" => root.selected_item[2] < MaxCursor
    /\ root' = [root EXCEPT !.selected_item = MoveCursor(@, key)]
    /\ commands' = IF root'.selected_item = root.selected_item
                   THEN commands
                   ELSE Append(commands, [selector |-> CHANGE_SELECTED_ITEM,
                                          payload |-> root'.selected_item])
    /\ lastEvent' = [NoEvent EXCEPT !.type = "KeyDown", !.key = key,
                                   !.from = root.selected_item]
    /\ keyPressed' = TRUE
    /\ ticksSinceRight' = IF key = "ArrowRight" /\ SelectedAtOrigin THEN 0 ELSE -1
    /\ UNCHANGED <<tasks, focus, running>>

\* faulty variant: the command is submitted before the cursor is moved
KeyDown_broadcasts_old_cursor(key) ==
    /\ running
    /\ focus = "focused"
    /\ QueueDrained
    /\ key = "ArrowDown" => root.selected_item[1] < MaxCursor
    /\ key = "ArrowRight" => root.selected_item[2] < MaxCursor
    /\ root' = [root EXCEPT !.selected_item = MoveCursor(@, key)]
    /\ commands' = Append(commands, [selector |-> CHANGE_SELECTED_ITEM,
                                     payload |-> root.selected_item])
    /\ lastEvent' = [NoEvent EXCEPT !.type = "KeyDown", !.key = key,
                                   !.from = root.selected_item]
    /\ keyPressed' = TRUE
    /\ ticksSinceRight' = IF key = "ArrowRight" /\ SelectedAtOrigin THEN 0 ELSE -1
    /\ UNCHANGED <<tasks, focus, running>>

\* Event::KeyDown at the RootWidget
KeyDown(key) ==
    /\ running
    /\ focus = "focused"
    /\ QueueDrained
    /\ key = "ArrowDown" => root.selected_item[1] < MaxCursor
    /\ key = "ArrowRight" => root.selected_item[2] < MaxCursor
    /\ root' = [root EXCEPT !.selected_item = MoveCursor(@, key)]
    /\ commands' = Append(commands, [selector |-> CHANGE_SELECTED_ITEM,
                                     payload |-> root'.selected_item])
    /\ lastEvent' = [NoEvent EXCEPT !.type = "KeyDown", !.key = key,
                                   !.from = root.selected_item]
    /\ keyPressed' = TRUE
    /\ ticksSinceRight' = IF key = "ArrowRight" /\ SelectedAtOrigin THEN 0 ELSE -1
    /\ UNCHANGED <<tasks, focus, running>>

\* Event::Command: the oldest submitted command is dispatched to the tree
DispatchCommand ==
    /\ running
    /\ commands # <<>>
    /\ LET command == Head(commands) IN
         /\ IF command.selector = REQUEST_FOCUS
            THEN focus' = "focused" /\ root' = root
            ELSE /\ focus' = focus
                 /\ root' = [root EXCEPT !.children.rows =
                       [r \in DOMAIN @ |-> ContentSet_on_command(@[r], command.payload)]]
         /\ lastEvent' = [NoEvent EXCEPT !.type = "Command", !.key = command.selector,
                                        !.from = command.payload]
    /\ commands' = Tail(commands)
    /\ UNCHANGED <<tasks, running, keyPressed, ticksSinceRight>>

\* Event::AnimFrame: one frame of the window
AnimFrame ==
    /\ running
    /\ QueueDrained
    /\ \E th \in Thumbnails : th.anim_requested
    /\ root' = [root EXCEPT !.children.rows =
          [r \in DOMAIN @ |-> ContentSet_on_anim_frame(@[r])]]
    /\ lastEvent' = [NoEvent EXCEPT !.type = "AnimFrame"]
    /\ ticksSinceRight' = IF ticksSinceRight \in 0..MAX_STEPS - 1
                          THEN ticksSinceRight + 1
                          ELSE ticksSinceRight
    /\ UNCHANGED <<tasks, commands, focus, running, keyPressed>>

-----------------------------------------------------------------------------
(* The program as the framework drives it *)

\* attaching the widgets, fetching in the background, splicing in the results
NextFetch ==
    \/ RootWidgetAdded
    \/ \E r \in 1..MaxRows : ContentSetWidgetAdded(r)
    \/ \E t \in DOMAIN tasks : FetchReturn(t)
    \/ \E t \in DOMAIN tasks : FetchPanic(t)
    \/ \E t \in DOMAIN tasks : DeliverPromiseResult(t)

\* focus, keys, the broadcast of the cursor, frames
NextInput ==
    \/ BuildFocusChain
    \/ \E key \in Keys : KeyDown(key)
    \/ DispatchCommand
    \/ AnimFrame

Next == NextFetch \/ NextInput

Spec == Init /\ [][Next]_vars

-----------------------------------------------------------------------------
(* The program with its scheduling, while no fetch fails: the event loop   *)
(* dispatches a submitted command (weak fairness: nothing else is taken    *)
(* while one is queued), and the window delivers a requested frame however *)
(* often keys arrive in between (strong fairness).  A closure that panics  *)
(* leaves a widget with its placeholder or ends the process, and with it   *)
(* the frames; it is left out here.  The return of a closure shows in no   *)
(* widget until its PromiseResult is handled, so the two are one step      *)
(* here.                                                                   *)

\* a closure returns Ok(list) and its PromiseResult is handled
ReturnAndDeliver(t) ==
    /\ running
    /\ QueueDrained
    /\ t \in DOMAIN tasks
    /\ tasks[t].status = "running"
    /\ \E payload \in Payloads(tasks[t].kind) :
         /\ root' = RootWidget_on_promise_result(root, t, payload)
         /\ tasks' = [tasks EXCEPT ![t].status = "resolved",
                                   ![t].payload = payload,
                                   ![t].delivered = 1]
    /\ lastEvent' = [NoEvent EXCEPT !.type = "PromiseResult", !.token = t]
    /\ UNCHANGED <<commands, focus, running, keyPressed, ticksSinceRight>>

NextLive ==
    \/ RootWidgetAdded
    \/ \E r \in 1..MaxRows : ContentSetWidgetAdded(r)
    \/ \E t \in DOMAIN tasks : ReturnAndDeliver(t)
    \/ NextInput

SpecFair ==
    Init /\ [][NextLive]_vars /\ WF_vars(DispatchCommand) /\ SF_vars(AnimFrame)

-----------------------------------------------------------------------------
(* The handlers under event sequences the framework does not produce in    *)
(* this application: a second WidgetAdded at a widget whose fetch is still *)
(* in flight (SpecRefetch), and a PromiseResult handed to the tree again   *)
(* (SpecRedeliver).  SpecRefetch leaves keys and frames out: they touch    *)
(* neither children_promise nor the PromiseResult arms.                    *)

Refetches == Cardinality({t \in DOMAIN tasks : tasks[t].refetch})

\* the task whose token the widget holds has produced no event yet
InFlight(token) == token # EmptyToken /\ tasks[token].delivered = 0

RootWidgetAddedAgain ==
    /\ running
    /\ QueueDrained
    /\ root.added
    /\ InFlight(root.children_promise)
    /\ Refetches < MaxRefetch
    /\ root' = RootWidget_on_widget_added(root, Len(tasks) + 1)
    /\ tasks' = Append(tasks, NewTask("collection", <<"root">>, TRUE))
    /\ lastEvent' = [NoEvent EXCEPT !.type = "WidgetAdded"]
    /\ UNCHANGED <<commands, focus, running, keyPressed, ticksSinceRight>>

ContentSetWidgetAddedAgain(r) ==
    /\ running
    /\ QueueDrained
    /\ r \in DOMAIN Rows
    /\ Rows[r].added
    /\ InFlight(Rows[r].children_promise)
    /\ Refetches < MaxRefetch
    /\ root' = [root EXCEPT !.children.rows[r] =
                   ContentSet_on_widget_added(@, Len(tasks) + 1)]
    /\ tasks' = Append(tasks, NewTask("content_set", <<"row", r - 1>>, TRUE))
    /\ lastEvent' = [NoEvent EXCEPT !.type = "WidgetAdded"]
    /\ UNCHANGED <<commands, focus, running, keyPressed, ticksSinceRight>>

NextRefetch ==
    \/ NextFetch
    \/ RootWidgetAddedAgain
    \/ \E r \in 1..MaxRows : ContentSetWidgetAddedAgain(r)

SpecRefetch == Init /\ [][NextRefetch]_vars

\* PromiseResult events handled beyond the first of their task
RECURSIVE Redeliveries(_)
Redeliveries(t) ==
    IF t = 0 THEN 0
    ELSE Redeliveries(t - 1) + (IF tasks[t].delivered > 1 THEN tasks[t].delivered - 1 ELSE 0)

RedeliverPromiseResult(t) ==
    /\ running
    /\ QueueDrained
    /\ t \in DOMAIN tasks
    /\ tasks[t].status = "resolved"
    /\ tasks[t].delivered >= 1
    /\ Redeliveries(Len(tasks)) < MaxRedeliver
    /\ HandlePromiseResult(t)

NextRedeliver ==
    \/ Next
    \/ \E t \in DOMAIN tasks : RedeliverPromiseResult(t)

SpecRedeliver == Init /\ [][NextRedeliver]_vars

-----------------------------------------------------------------------------
(* Observations used by the properties *)

\* addresses (row, column) a Thumbnail can have
Addresses == (0..MaxRows - 1) \X (0..MaxCols - 1)

Selected == {th \in Thumbnails : th.selected}

Broadcast == lastEvent.type = "Command" /\ lastEvent.key = CHANGE_SELECTED_ITEM

\* this step handled the PromiseResult of task t
Delivered(t) == tasks'[t].delivered = tasks[t].delivered + 1

-----------------------------------------------------------------------------
(* C1: right after a CHANGE_SELECTED_ITEM broadcast has been handled by    *)
(* all Thumbnails, at most one Thumbnail of the tree is selected.          *)
C1_AtMostOneSelectedAfterBroadcast ==
    Broadcast => Cardinality(Selected) <= 1

\* a broadcast has just moved the selection from one Thumbnail to another
C1_Witness ==
    /\ Broadcast
    /\ \E th \in Thumbnails : th.selected /\ th.selected_progress = 0
    /\ \E th \in Thumbnails :
         ~th.selected /\ th.anim_requested /\ th.selected_progress = MAX_STEPS

-----------------------------------------------------------------------------
(* C5: selected_progress of every Thumbnail stays in 0..MAX_STEPS, a step  *)
(* changes it by at most 1, and only an AnimFrame step changes it.         *)
C5_ProgressBoundedAndStepwise ==
    /\ [](\A th \in Thumbnails : th.selected_progress \in 0..MAX_STEPS)
    /\ [][\A a \in Addresses :
            HasItem(root, a) /\ HasItem(root', a) =>
              LET before == ItemAt(root, a).selected_progress
                  after == ItemAt(root', a).selected_progress
              IN /\ after - before \in {-1, 0, 1}
                 /\ after # before => AnimFrame]_vars

\* a frame has found the selected Thumbnail at MAX_STEPS and left it there
\* (it asked for no further frame), with a second Thumbnail shrunk back to 0
C5_Witness ==
    /\ lastEvent.type = "AnimFrame"
    /\ \E th \in Thumbnails :
         th.selected /\ th.selected_progress = MAX_STEPS /\ ~th.anim_requested
    /\ \E th \in Thumbnails :
         ~th.selected /\ th.selected_progress = 0 /\ ~th.anim_requested
    /\ Cardinality(Thumbnails) = 2

-----------------------------------------------------------------------------
(* C6: in no step does selected_progress of a Thumbnail decrease while the *)
(* Thumbnail is selected, or increase while it is not selected.            *)
C6_ProgressFollowsSelected ==
    [][\A a \in Addresses :
         HasItem(root, a) /\ HasItem(root', a) =>
           LET self == ItemAt(root, a)
               after == ItemAt(root', a).selected_progress
           IN /\ self.selected => after >= self.selected_progress
              /\ ~self.selected => after <= self.selected_progress]_vars

\* a frame has just moved a growing and a shrinking Thumbnail
C6_Witness ==
    /\ lastEvent.type = "AnimFrame"
    /\ \E th \in Thumbnails : th.selected /\ th.selected_progress \in 1..MAX_STEPS - 1
    /\ \E th \in Thumbnails : ~th.selected /\ th.selected_progress \in 1..MAX_STEPS - 1

-----------------------------------------------------------------------------
(* C7: the cursor saturates at 0: ArrowUp with row 0 and ArrowLeft with    *)
(* column 0 leave the cursor where it was, and no coordinate is negative.  *)
C7_CursorSaturatesAtZero ==
    /\ root.selected_item[1] >= 0
    /\ root.selected_item[2] >= 0
    /\ lastEvent.type = "KeyDown" /\ lastEvent.key = "ArrowUp" /\ lastEvent.from[1] = 0
         => root.selected_item = lastEvent.from
    /\ lastEvent.type = "KeyDown" /\ lastEvent.key = "ArrowLeft" /\ lastEvent.from[2] = 0
         => root.selected_item = lastEvent.from

\* ArrowUp has just been handled with the cursor in row 0, after the cursor
\* had been moved away from column 0
C7_Witness ==
    /\ lastEvent.type = "KeyDown"
    /\ lastEvent.key = "ArrowUp"
    /\ lastEvent.from[1] = 0
    /\ root.selected_item = <<0, 1>>

-----------------------------------------------------------------------------
(* C8 as stated: exactly one Thumbnail is selected; while the cursor is at *)
(* (0,0) and Thumbnail (0,0) exists, that Thumbnail is selected.           *)
C8_ExactlyOneSelected ==
    root.selected_item = <<0, 0>> /\ HasItem(root, <<0, 0>>) =>
        /\ ItemAt(root, <<0, 0>>).selected
        /\ Cardinality(Selected) = 1

(* C8 as amended: at most one Thumbnail is selected at any time, and none  *)
(* before the first key event: a Thumbnail (0,0) built under a cursor at   *)
(* (0,0) is not selected until a key has been pressed.                     *)
C8_AtMostOneSelected ==
    /\ Cardinality(Selected) <= 1
    /\ ~keyPressed => Selected = {}

\* Thumbnail (0,0) exists under the cursor, no key has been pressed
C8_Witness ==
    /\ ~keyPressed
    /\ root.selected_item = <<0, 0>>
    /\ HasItem(root, <<0, 0>>)
    /\ QueueDrained
    /\ ~ItemAt(root, <<0, 0>>).selected

-----------------------------------------------------------------------------
(* C9: a PromiseResult is accepted by a widget iff it carries the token    *)
(* the widget holds: it replaces the children of the widget that scheduled *)
(* its task and of no other, and a ContentSet with the empty token accepts *)
(* nothing.                                                                *)
RootAccepts == root'.children.placeholder # root.children.placeholder

C9_AcceptedIffTokenMatches ==
    [][\A t \in DOMAIN tasks : Delivered(t) =>
         /\ RootAccepts <=> t = root.children_promise
         /\ RootAccepts <=> tasks[t].owner = <<"root">>
         /\ ~RootAccepts =>
              /\ Len(root'.children.rows) = Len(Rows)
              /\ \A r \in DOMAIN Rows :
                   LET accepts == root'.children.rows[r] # Rows[r] IN
                   /\ accepts <=> t = Rows[r].children_promise
                   /\ accepts <=> tasks[t].owner = <<"row", r - 1>>
                   /\ Rows[r].children_promise = EmptyToken => ~accepts]_vars

\* the first row has just accepted its result next to a second row that has
\* not scheduled its fetch yet
C9_Witness ==
    /\ lastEvent.type = "PromiseResult"
    /\ Len(Rows) = 2
    /\ lastEvent.token = Rows[1].children_promise
    /\ ~Rows[1].children.placeholder
    /\ Rows[2].children_promise = EmptyToken
    /\ Rows[2].children.placeholder

-----------------------------------------------------------------------------
(* C10: the RootWidget accepting a collection of n entries has n           *)
(* ContentSets afterwards, the k-th with row index k, the k-th entry's     *)
(* title and refId and its placeholder; a ContentSet accepting m URLs has  *)
(* m Thumbnails afterwards, at (row, 0) .. (row, m-1) in the order of the  *)
(* URLs.                                                                   *)
C10_ChildrenBuiltFromResult ==
    [][\A t \in DOMAIN tasks : Delivered(t) =>
         LET payload == tasks[t].payload IN
         /\ t = root.children_promise =>
              /\ ~root'.children.placeholder
              /\ Len(root'.children.rows) = Len(payload)
              /\ \A k \in 1..Len(payload) :
                   LET child == root'.children.rows[k] IN
                   /\ child.row = k - 1
                   /\ child.data = payload[k]
                   /\ child.children.label = payload[k].title
                   /\ child.children.placeholder
                   /\ child.children.titles = <<>>
         /\ \A r \in DOMAIN Rows :
              t # root.children_promise /\ t = Rows[r].children_promise =>
                LET children == root'.children.rows[r].children IN
                /\ ~children.placeholder
                /\ Len(children.titles) = Len(payload)
                /\ \A c \in 1..Len(payload) :
                     /\ children.titles[c].row = r - 1
                     /\ children.titles[c].column = c - 1
                     /\ children.titles[c].inner = payload[c]]_vars

\* the second of two rows has just accepted a result of two URLs
C10_Witness ==
    /\ lastEvent.type = "PromiseResult"
    /\ Len(Rows) = 2
    /\ lastEvent.token = Rows[2].children_promise
    /\ Len(Rows[2].children.titles) = 2
    /\ Rows[2].children.titles[2].column = 1
    /\ Rows[2].data = ContentSetMetadata(1)

-----------------------------------------------------------------------------
(* C2 as stated: a PromiseResult handed a second time to the widget that   *)
(* accepted it is a no-op: the children of the tree stay as they are.      *)
C2_SecondDeliveryIsNoOp ==
    [][\A t \in DOMAIN tasks :
         tasks[t].delivered >= 1 /\ Delivered(t) => root'.children = root.children]_vars

-----------------------------------------------------------------------------
(* C3: when a widget has scheduled a second fetch before the first one     *)
(* resolved, the result of the first does not change the widget's children *)
(* and the result of the second replaces them.                             *)
Superseded(t) ==
    \E u \in DOMAIN tasks : u > t /\ tasks[u].owner = tasks[t].owner

C3_StaleResultRejected ==
    [][\A t \in DOMAIN tasks : Delivered(t) =>
         LET owner == tasks[t].owner
             payload == tasks[t].payload
         IN IF owner = <<"root">>
            THEN /\ Superseded(t) => root'.children = root.children
                 /\ ~Superseded(t) =>
                      /\ root.children.placeholder
                      /\ ~root'.children.placeholder
                      /\ Len(root'.children.rows) = Len(payload)
            ELSE LET r == owner[2] + 1 IN
                 /\ r \in DOMAIN Rows
                 /\ Superseded(t) => root'.children.rows[r] = Rows[r]
                 /\ ~Superseded(t) =>
                      /\ Rows[r].children.placeholder
                      /\ ~root'.children.rows[r].children.placeholder
                      /\ Len(root'.children.rows[r].children.titles) = Len(payload)]_vars

\* a row scheduled task t and then task u; the result of t (one URL) was
\* handled first, the result of u (no URL) has just replaced the placeholder,
\* and the row shows no Thumbnail
C3_Witness ==
    \E t, u \in DOMAIN tasks :
        /\ t < u
        /\ tasks[t].owner = <<"row", 0>>
        /\ tasks[u].owner = <<"row", 0>>
        /\ tasks[t].delivered = 1
        /\ tasks[u].delivered = 1
        /\ lastEvent.type = "PromiseResult"
        /\ lastEvent.token = u
        /\ Len(tasks[t].payload) = 1
        /\ Len(tasks[u].payload) = 0
        /\ ~Rows[1].children.placeholder
        /\ Rows[1].children.titles = <<>>

-----------------------------------------------------------------------------
-----------------------------------------------------------------------------
(* C11: with Thumbnail (0,0) selected at MAX_STEPS, Thumbnail (0,1)        *)
(* unselected at 0 and the cursor at (0,0), ArrowRight moves the cursor to *)
(* (0,1); once its broadcast is handled (0,1) is selected and (0,0) is     *)
(* not; after MAX_STEPS frames (0,1) is at MAX_STEPS and (0,0) at 0.       *)
C11_RightThenFiveFrames ==
    ticksSinceRight >= 0 =>
        /\ root.selected_item = <<0, 1>>
        /\ HasItem(root, <<0, 0>>)
        /\ HasItem(root, <<0, 1>>)
        /\ QueueDrained =>
             /\ ItemAt(root, <<0, 1>>).selected
             /\ ~ItemAt(root, <<0, 0>>).selected
        /\ ~QueueDrained =>
             /\ commands = <<[selector |-> CHANGE_SELECTED_ITEM, payload |-> <<0, 1>>]>>
             /\ ticksSinceRight = 0
        /\ ticksSinceRight = MAX_STEPS =>
             /\ ItemAt(root, <<0, 1>>).selected_progress = MAX_STEPS
             /\ ItemAt(root, <<0, 0>>).selected_progress = 0

\* the fifth frame after the ArrowRight has just been handled
C11_Witness ==
    /\ ticksSinceRight = MAX_STEPS
    /\ lastEvent.type = "AnimFrame"
    /\ ItemAt(root, <<0, 1>>).anim_requested
    /\ ItemAt(root, <<0, 0>>).anim_requested


-----------------------------------------------------------------------------
(* C12: a ContentSet whose fetch returned the empty list accepts it like   *)
(* any result: afterwards its placeholder is gone, it has no Thumbnail,    *)
(* its label shows the row title, and the process runs on.                 *)
C12_EmptyResultAccepted ==
    [][\A t \in DOMAIN tasks :
         Delivered(t) /\ tasks[t].kind = "content_set" /\ tasks[t].payload = <<>> =>
           LET r == tasks[t].owner[2] + 1
               children == root'.children.rows[r].children
           IN /\ r \in DOMAIN root'.children.rows
              /\ Rows[r].children.placeholder
              /\ ~children.placeholder
              /\ children.titles = <<>>
              /\ children.label = Rows[r].data.title
              /\ running']_vars

\* the second row has just accepted the empty list, the first row holds a
\* Thumbnail
C12_Witness ==
    /\ lastEvent.type = "PromiseResult"
    /\ Len(Rows) = 2
    /\ lastEvent.token = Rows[2].children_promise
    /\ ~Rows[2].children.placeholder
    /\ Rows[2].children.titles = <<>>
    /\ Rows[2].children.label = <<"title", 1>>
    /\ Len(Rows[1].children.titles) = 1
    /\ running


-----------------------------------------------------------------------------
(* C13: every KeyDown submits the broadcast of the cursor it has just set; *)
(* while that broadcast is pending no KeyDown and no PromiseResult is      *)
(* handled, and the next change of the tree is the broadcast reaching      *)
(* every Thumbnail of the tree as it was at the key event.                 *)
BroadcastPending ==
    \E i \in DOMAIN commands : commands[i].selector = CHANGE_SELECTED_ITEM

-----------------------------------------------------------------------------
\* this step hands a CHANGE_SELECTED_ITEM command to the tree
BroadcastStep ==
    /\ commands # <<>>
    /\ Head(commands).selector = CHANGE_SELECTED_ITEM
    /\ DispatchCommand

(* C14 as stated: a broadcast requests a frame for a Thumbnail only when   *)
(* its progress has a way to go: none for an addressed Thumbnail at        *)
(* MAX_STEPS, none for a deselected Thumbnail at 0.                        *)
C14_FrameOnlyWithDistance ==
    [][BroadcastStep =>
         \A a \in Addresses : HasItem(root, a) =>
           LET self == ItemAt(root, a)
               after == ItemAt(root', a)
           IN /\ a = Head(commands).payload /\ self.selected_progress = MAX_STEPS
                   => after.anim_requested = self.anim_requested
              /\ a # Head(commands).payload /\ self.selected /\ self.selected_progress = 0
                   => after.anim_requested = self.anim_requested]_vars

(* C14 as amended: a broadcast requests a frame for the Thumbnail it       *)
(* addresses and for a selected Thumbnail it does not address, whatever    *)
(* their progress; for an unselected Thumbnail it does not address it      *)
(* requests none.                                                          *)
C14_FrameOnEverySelectionEvent ==
    [][BroadcastStep =>
         \A a \in Addresses : HasItem(root, a) =>
           LET self == ItemAt(root, a)
               after == ItemAt(root', a)
           IN /\ a = Head(commands).payload => after.anim_requested
              /\ a # Head(commands).payload /\ self.selected => after.anim_requested
              /\ a # Head(commands).payload /\ ~self.selected
                   => after.anim_requested = self.anim_requested]_vars

\* a broadcast has just addressed a Thumbnail again that was selected and
\* fully grown: it has a frame requested and nowhere to go
C14_Witness ==
    /\ Broadcast
    /\ HasItem(root, lastEvent.from)
    /\ ItemAt(root, lastEvent.from).selected
    /\ ItemAt(root, lastEvent.from).selected_progress = MAX_STEPS
    /\ ItemAt(root, lastEvent.from).anim_requested
    /\ \A th \in Thumbnails : ~th.selected => ~th.anim_requested


-----------------------------------------------------------------------------
\* Thumbnail a is at rest: its progress is at the bound of its selected flag
\* and it has no frame requested
AtRest(a) ==
    /\ HasItem(root, a)
    /\ ~ItemAt(root, a).anim_requested
    /\ ItemAt(root, a).selected_progress =
         (IF ItemAt(root, a).selected THEN MAX_STEPS ELSE 0)

\* this step changes the selected flag of Thumbnail a
SelectedFlips(a) ==
    /\ HasItem(root, a)
    /\ HasItem(root', a)
    /\ ItemAt(root', a).selected # ItemAt(root, a).selected

(* C15: a Thumbnail whose selected flag changes only finitely often is at  *)
(* rest again and again: its progress at MAX_STEPS if selected and at 0 if *)
(* not, no frame requested; and a Thumbnail at rest leaves rest only by a  *)
(* broadcast that addresses it or deselects it.                            *)
C15_RestReachedAndKept ==
    /\ \A a \in Addresses :
         \/ []<>(HasItem(root, a) => AtRest(a))
         \/ []<><<SelectedFlips(a)>>_vars
    /\ [][\A a \in Addresses :
            AtRest(a) /\ ~AtRest(a)' =>
              /\ BroadcastStep
              /\ a = Head(commands).payload \/ ItemAt(root, a).selected]_vars

\* a frame has just found both Thumbnails of a row at their bounds, after the
\* selection had moved from (0,0) to (0,1): both are at rest
C15_Witness ==
    /\ lastEvent.type = "AnimFrame"
    /\ AtRest(<<0, 0>>)
    /\ AtRest(<<0, 1>>)
    /\ ItemAt(root, <<0, 1>>).selected
    /\ ticksSinceRight = MAX_STEPS


-----------------------------------------------------------------------------
(* C16: a KeyDown changes at most one coordinate of the cursor and by at   *)
(* most 1: ArrowUp and ArrowDown only the row, ArrowLeft and ArrowRight    *)
(* only the column, any other key neither; no other event changes the      *)
(* cursor.                                                                 *)
C16_CursorChangedByKeysOnly ==
    [][LET before == root.selected_item
           after == root'.selected_item
       IN /\ \A key \in Keys : KeyDown(key) =>
               /\ key \in {"ArrowUp", "ArrowDown"} =>
                    after[2] = before[2] /\ after[1] - before[1] \in {-1, 0, 1}
               /\ key \in {"ArrowLeft", "ArrowRight"} =>
                    after[1] = before[1] /\ after[2] - before[2] \in {-1, 0, 1}
               /\ key = "ArrowDown" => after[1] >= before[1]
               /\ key = "ArrowUp" => after[1] <= before[1]
               /\ key = "ArrowRight" => after[2] >= before[2]
               /\ key = "ArrowLeft" => after[2] <= before[2]
               /\ key = "Other" => after = before
          /\ after # before => \E key \in Keys : KeyDown(key)]_vars

\* ArrowLeft has just taken the cursor from (1,1) to (1,0)
C16_Witness ==
    /\ lastEvent.type = "KeyDown"
    /\ lastEvent.key = "ArrowLeft"
    /\ lastEvent.from = <<1, 1>>
    /\ root.selected_item = <<1, 0>>


-----------------------------------------------------------------------------
(* C17: the cursor is not held within the content: ArrowDown and           *)
(* ArrowRight add 1 whatever rows and Thumbnails exist, and after a        *)
(* broadcast of a position where no Thumbnail is, no Thumbnail is          *)
(* selected.                                                               *)
C17_CursorNotClamped ==
    /\ lastEvent.type = "KeyDown" /\ lastEvent.key = "ArrowDown"
         => root.selected_item = <<lastEvent.from[1] + 1, lastEvent.from[2]>>
    /\ lastEvent.type = "KeyDown" /\ lastEvent.key = "ArrowRight"
         => root.selected_item = <<lastEvent.from[1], lastEvent.from[2] + 1>>
    /\ Broadcast /\ ~HasItem(root, lastEvent.from) => Selected = {}

\* the only row has one Thumbnail, which was selected; ArrowRight has taken
\* the cursor to (0,1) and its broadcast has left no Thumbnail selected
C17_Witness ==
    /\ Broadcast
    /\ lastEvent.from = <<0, 1>>
    /\ root.selected_item = <<0, 1>>
    /\ Len(Rows) = 1
    /\ Len(Rows[1].children.titles) = 1
    /\ Selected = {}
    /\ ItemAt(root, <<0, 0>>).selected_progress > 0
    /\ ItemAt(root, <<0, 0>>).anim_requested


-----------------------------------------------------------------------------
(* C18: handling a PromiseResult replaces the children of the widget that  *)
(* accepts it and nothing else: the cursor stays, a ContentSet that        *)
(* accepts keeps its row index and its metadata, and the Thumbnails of     *)
(* every other ContentSet keep position, selected flag and progress.       *)
C18_AcceptReplacesChildrenOnly ==
    [][\A t \in DOMAIN tasks : Delivered(t) =>
         /\ root'.selected_item = root.selected_item
         /\ ~RootAccepts =>
              /\ Len(root'.children.rows) = Len(Rows)
              /\ \A r \in DOMAIN Rows :
                   LET self == Rows[r]
                       after == root'.children.rows[r]
                   IN /\ after.row = self.row
                      /\ after.data = self.data
                      /\ t # self.children_promise =>
                           /\ Len(after.children.titles) = Len(self.children.titles)
                           /\ \A c \in DOMAIN self.children.titles :
                                LET th == self.children.titles[c]
                                    th2 == after.children.titles[c]
                                IN /\ th2.row = th.row
                                   /\ th2.column = th.column
                                   /\ th2.selected = th.selected
                                   /\ th2.selected_progress = th.selected_progress]_vars

\* the second row has just accepted its result while the Thumbnail of the
\* first row was selected and growing, the cursor away from the origin
C18_Witness ==
    /\ lastEvent.type = "PromiseResult"
    /\ Len(Rows) = 2
    /\ lastEvent.token = Rows[2].children_promise
    /\ Len(Rows[2].children.titles) = 1
    /\ Rows[2].row = 1
    /\ Len(Rows[1].children.titles) = 1
    /\ Rows[1].children.titles[1].selected_progress \in 1..MAX_STEPS - 1
    /\ root.selected_item = <<1, 1>>


-----------------------------------------------------------------------------
(* C19: whenever no CHANGE_SELECTED_ITEM command waits to be dispatched,   *)
(* every selected Thumbnail is the one at the cursor.                      *)
C19_SelectedIsAtCursor ==
    ~BroadcastPending =>
        \A th \in Selected : <<th.row, th.column>> = root.selected_item

\* the selection has followed the cursor from the first row to the second
C19_Witness ==
    /\ ~BroadcastPending
    /\ root.selected_item = <<1, 0>>
    /\ HasItem(root, <<1, 0>>)
    /\ ItemAt(root, <<1, 0>>).selected
    /\ HasItem(root, <<0, 0>>)
    /\ ItemAt(root, <<0, 0>>).selected_progress > 0


-----------------------------------------------------------------------------
(* C20: the Thumbnails a ContentSet builds from its result are unselected  *)
(* with progress 0 wherever the cursor is, and handling the result submits *)
(* no command; a Thumbnail becomes selected only by a broadcast, also the  *)
(* one built at the cursor's position.                                     *)
C20_SplicedUnselected ==
    [][/\ \A t \in DOMAIN tasks : Delivered(t) =>
             /\ commands' = commands
             /\ \A r \in DOMAIN Rows : t = Rows[r].children_promise =>
                  \A c \in DOMAIN root'.children.rows[r].children.titles :
                     LET th == root'.children.rows[r].children.titles[c] IN
                     /\ ~th.selected
                     /\ th.selected_progress = 0
                     /\ ~th.anim_requested
       /\ \A a \in Addresses :
            HasItem(root', a) /\ ItemAt(root', a).selected
              /\ ~(HasItem(root, a) /\ ItemAt(root, a).selected)
            => BroadcastStep /\ HasItem(root, a) /\ a = Head(commands).payload]_vars

\* the cursor was moved to (0,1) while the fetch of the first row was in
\* flight; the row has just built its Thumbnails and the one at (0,1) is
\* unselected, no command waiting
C20_Witness ==
    /\ lastEvent.type = "PromiseResult"
    /\ keyPressed
    /\ QueueDrained
    /\ root.selected_item = <<0, 1>>
    /\ HasItem(root, <<0, 1>>)
    /\ lastEvent.token = Rows[1].children_promise
    /\ ~ItemAt(root, <<0, 1>>).selected
    /\ ItemAt(root, <<0, 1>>).selected_progress = 0


====
